---- MODULE Spec2Model ----
(***************************************************************************)
(* A model of src/app.py, the Streamlit SERP-tracking dashboard.           *)
(*                                                                         *)
(* One script run (a Streamlit rerun) is a process: it reads the widgets,  *)
(* resolves the credentials, optionally runs the tracking loop (one        *)
(* record_serp per iteration), merges, handles the uploaded files and      *)
(* renders.  st.session_state["serp_csv"] and the snapshot folder survive  *)
(* between runs.                                                           *)
(*                                                                         *)
(* Text cells are sequences of one-character strings; a missing cell is    *)
(* NaN.  Numbers that are floats in the program (sentiment) are fixed      *)
(* point with SentScale units per 1.0.  Times are whole seconds.           *)
(***************************************************************************)
EXTENDS Integers, Sequences, FiniteSets, TLC

VARIABLES
    secrets,          \* st.secrets: [API_KEY, CSE_ID], "" when not set
    typed,            \* the sidebar's credential inputs (lines 25-26)
    naMode,           \* how the installed pandas treats a missing string cell
    api_key,          \* the credentials after lines 25-44
    cse_id,
    queries,          \* line 50
    interval,         \* line 51
    iterations,       \* line 54
    uploaded_files,   \* line 89: the files held by the uploader widget
    keyword,          \* line 150
    filter_field,     \* line 151
    serp_csv,         \* st.session_state["serp_csv"]
    disk,             \* folder_path: file name -> CSV content
    clock,            \* the local clock, in seconds
    pc,               \* where the script run is
    i,                \* the loop variable of line 71
    collected_dfs,    \* line 70
    csv,              \* the data of the download button (line 110)
    serp_results,     \* the filtered table (lines 153-169, 210-211)
    refiltered,       \* a second application of the filter to serp_results
    outcome,          \* how the last script run ended
    fetchLog,         \* the adv.serp_goog calls of the current run
    runFiles,         \* the file names written by the current run, in order
    sleeps            \* the time.sleep calls of the current run

vars == <<secrets, typed, naMode, api_key, cse_id, queries, interval, iterations,
          uploaded_files, keyword, filter_field, serp_csv, disk, clock, pc, i,
          collected_dfs, csv, serp_results, refiltered, outcome, fetchLog,
          runFiles, sleeps>>

(***************************************************************************)
(* Bounds of the model.                                                    *)
(***************************************************************************)
MaxIterations == 2      \* iterations ranges over 1..MaxIterations
IntervalSpread == 0     \* interval ranges over MinInterval..MinInterval+IntervalSpread
MaxFetchSecs == 0       \* a fetch and its write take 0..MaxFetchSecs seconds
MaxClock == 0           \* a tracking run starts only while clock <= MaxClock
MaxFiles == 2           \* files per upload (merge and filter specifications)
MaxRows == 2            \* rows per table (merge and filter specifications)

(***************************************************************************)
(* Program constants.                                                      *)
(***************************************************************************)
MinInterval == 10       \* number_input(min_value=10)
MinIterations == 1      \* number_input(min_value=1)
Placeholder == 35       \* serp_results["bubble_size"] = 35
BubbleFactor == 20      \* sentiment_positive * 20 + 10
BubbleOffset == 10
SentScale == 8          \* fixed point: 1.0 is SentScale

(***************************************************************************)
(* Values.                                                                 *)
(***************************************************************************)
NaN == <<"NaN">>                       \* a missing text cell (float nan)
NaNIndex == "NaN"                      \* strftime of NaT: the index sentinel
NaT == -1                              \* pandas.NaT
NaNTime == [kind |-> "nan", t |-> 0]   \* a missing queryTime cell
None == [isNone |-> TRUE]

Range(s) == {s[k] : k \in 1..Len(s)}

RECURSIVE SumSeq(_)
SumSeq(s) == IF s = <<>> THEN 0 ELSE Head(s) + SumSeq(Tail(s))

RECURSIVE Flatten(_)
Flatten(ss) == IF ss = <<>> THEN <<>> ELSE Head(ss) \o Flatten(Tail(ss))

\* The subsequence of s at the positions (in increasing order) satisfying keep.
RECURSIVE SelectIdx(_, _, _)
SelectIdx(s, keep, k) ==
    IF k > Len(s) THEN <<>>
    ELSE (IF keep[k] THEN <<s[k]>> ELSE <<>>) \o SelectIdx(s, keep, k + 1)

Pad2(n) == IF n < 10 THEN "0" \o ToString(n) ELSE ToString(n)

\* str.strip() of one comma-separated item.
RECURSIVE LStrip(_)
LStrip(s) == IF s # <<>> /\ Head(s) = " " THEN LStrip(Tail(s)) ELSE s
RECURSIVE RStrip(_)
RStrip(s) ==
    IF s # <<>> /\ s[Len(s)] = " " THEN RStrip(SubSeq(s, 1, Len(s) - 1)) ELSE s
Strip(s) == RStrip(LStrip(s))

\* queries = [q.strip() for q in queries_input.split(",") if q.strip()]
StripAll(items) == [k \in 1..Len(items) |-> Strip(items[k])]
ParseQueries(items) == SelectSeq(StripAll(items), LAMBDA q : q # <<>>)

(***************************************************************************)
(* Time formatting.                                                        *)
(***************************************************************************)
Day(t) == t \div 86400
Hour(t) == (t \div 3600) % 24
Minute(t) == (t \div 60) % 60
Second(t) == t % 60

\* A mutant of DateStamp: the seconds are left out of the file name.
DateStampNoSeconds(t) ==
    Pad2(Day(t) + 1) \o "011970" \o Pad2(Hour(t)) \o "_" \o Pad2(Minute(t))

\* datetime.now().strftime("%d%m%Y%H_%M_%S"), for a clock within January 1970.
DateStamp(t) ==
    Pad2(Day(t) + 1) \o "011970" \o Pad2(Hour(t)) \o "_" \o Pad2(Minute(t))
        \o "_" \o Pad2(Second(t))

FileName(t) == "serp_" \o DateStamp(t) \o "_scheduled_serp.csv"

\* DatetimeIndex.strftime("%Y-%m-%d %H:%M:%S"); NaT gives NaN.
Strftime(t) ==
    IF t = NaT THEN NaNIndex
    ELSE "1970-01-" \o Pad2(Day(t) + 1) \o " " \o Pad2(Hour(t)) \o ":"
             \o Pad2(Minute(t)) \o ":" \o Pad2(Second(t))

\* A mutant of ToDatetime: an unparsable value becomes the epoch, not NaT.
ToDatetimeEpoch(v) == IF v.kind \in {"ts", "iso"} THEN v.t ELSE 0

\* pd.to_datetime(..., errors="coerce") of one queryTime cell: a Timestamp
\* ("ts") or a parsable string ("iso") gives its time, anything else NaT.
ToDatetime(v) == IF v.kind \in {"ts", "iso"} THEN v.t ELSE NaT

(***************************************************************************)
(* Tables (DataFrames): the columns, those of object dtype, the index and  *)
(* the rows, each row a function from the columns to cells.                *)
(***************************************************************************)
Table(cols, objcols, index, rows) ==
    [isNone |-> FALSE, columns |-> cols, objcols |-> objcols,
     index |-> index, rows |-> rows]

RangeIndex(n) == [k \in 1..n |-> ToString(k - 1)]

Fill(c) == IF c = "queryTime" THEN NaNTime ELSE NaN
IsNa(c, v) == v = Fill(c)

\* pd.read_csv: the unnamed first column of a file written with its index
\* is named "Unnamed: 0"; a column with no value at all is float64.
CsvName(c) == IF c = "" THEN "Unnamed: 0" ELSE c
ReadCsv(file) ==
    LET cols == {CsvName(c) : c \in file.columns}
        back(c) == IF c = "Unnamed: 0" THEN "" ELSE c
        rows == [k \in 1..Len(file.lines) |->
                    [c \in cols |-> file.lines[k][back(c)]]]
    IN Table(cols,
             {c \in cols : c # "queryTime" /\
                  (rows = <<>> \/ \E k \in 1..Len(rows) : ~IsNa(c, rows[k][c]))},
             RangeIndex(Len(rows)), rows)

\* DataFrame.to_csv(): the index becomes the first column, under its name
\* ("" for an unnamed index); a Timestamp is written as a string.
CsvCell(v) == IF v.kind = "ts" THEN [kind |-> "iso", t |-> v.t] ELSE v
ToCsv(t, indexName) ==
    [columns |-> {indexName} \cup t.columns,
     lines |-> [k \in 1..Len(t.rows) |->
                  [c \in {indexName} \cup t.columns |->
                      IF c = indexName
                      THEN (IF indexName = "" THEN <<t.index[k]>> ELSE t.index[k])
                      ELSE IF c = "queryTime" THEN CsvCell(t.rows[k][c])
                      ELSE t.rows[k][c]]]]

\* pd.concat(dfs, ignore_index=True): the union of the columns, the rows in
\* input order, cells of a column a table lacks filled with NaN.
Concat(dfs) ==
    LET cols == UNION {dfs[k].columns : k \in 1..Len(dfs)}
        widen(r) == [c \in cols |-> IF c \in DOMAIN r THEN r[c] ELSE Fill(c)]
        rows == Flatten([k \in 1..Len(dfs) |->
                    [j \in 1..Len(dfs[k].rows) |-> widen(dfs[k].rows[j])]])
    IN Table(cols, UNION {dfs[k].objcols : k \in 1..Len(dfs)},
             RangeIndex(Len(rows)), rows)

\* A mutant of DropColumn: nothing is dropped.
DropNothing(t, col) == t

\* DataFrame.drop(columns=col, errors="ignore")
DropColumn(t, col) ==
    Table(t.columns \ {col}, t.objcols \ {col}, t.index,
          [k \in 1..Len(t.rows) |-> [c \in t.columns \ {col} |-> t.rows[k][c]]])

\* set_index("queryTime") and the re-indexing by the parsed time:
\* index = pd.to_datetime(index, errors="coerce").strftime("%Y-%m-%d %H:%M:%S")
SetTimeIndex(t) ==
    Table(t.columns \ {"queryTime"}, t.objcols,
          [k \in 1..Len(t.rows) |-> Strftime(ToDatetime(t.rows[k]["queryTime"]))],
          [k \in 1..Len(t.rows) |->
              [c \in t.columns \ {"queryTime"} |-> t.rows[k][c]]])

\* The result of a merge: the table, or the error that ended the script run.
Ok(t) == [status |-> "ok", table |-> t]
Error(what) == [status |-> what, table |-> None]

MergeTables(dfs) ==
    LET t == DropColumn(Concat(dfs), "Unnamed: 0")
    IN IF "queryTime" \notin t.columns THEN Error("KeyError")
       ELSE Ok(SetTimeIndex(t))

\* Lines 80-85: the merge of the tables collected by the tracking loop.
TrackingMerge(dfs) == MergeTables(dfs)

\* Lines 95-101: the merge of the uploaded files.
UploadMerge(files) == MergeTables([k \in 1..Len(files) |-> ReadCsv(files[k])])

(***************************************************************************)
(* Derived metrics (lines 127-132, 168-169, 210-211).                      *)
(***************************************************************************)
\* str(x): the text of a cell; str(nan) is "nan".
Str(v) == IF v = NaN THEN <<"n", "a", "n">> ELSE v

\* The polarity lexicon, an external collaborator: each one-character word
\* it knows has a score in [-1, 1]; case is ignored.
Lower(ch) ==
    IF ch = "G" THEN "g" ELSE IF ch = "B" THEN "b" ELSE IF ch = "O" THEN "o" ELSE ch
LowerStr(s) == [k \in 1..Len(s) |-> Lower(s[k])]
Lexicon(w) ==
    IF w = "g" THEN SentScale
    ELSE IF w = "b" THEN -((3 * SentScale) \div 4)
    ELSE IF w = "o" THEN SentScale \div 4
    ELSE 0
Known(w) == w \in {"g", "b", "o"}

\* TextBlob(text).sentiment.polarity: the mean score of the known words,
\* 0.0 when there is none.
Polarity(text) ==
    LET ws == SelectSeq(LowerStr(text), Known)
    IN IF ws = <<>> THEN 0
       ELSE SumSeq([k \in 1..Len(ws) |-> Lexicon(ws[k])]) \div Len(ws)

\* t[col] = vals: a column is added or overwritten in place.
WithColumn(t, col, vals) ==
    Table(t.columns \cup {col}, t.objcols \ {col}, t.index,
          [k \in 1..Len(t.rows) |->
              [c \in t.columns \cup {col} |->
                  IF c = col THEN vals[k] ELSE t.rows[k][c]]])

\* Lines 127-132.
AddSentiment(t) ==
    LET s == WithColumn(t, "sentiment",
                 [k \in 1..Len(t.rows) |-> Polarity(Str(t.rows[k]["title"]))])
    IN WithColumn(s, "sentiment_positive",
           [k \in 1..Len(s.rows) |-> s.rows[k]["sentiment"] + SentScale])

\* serp_results["sentiment_positive"] * 20 + 10
Bubble(t) ==
    [k \in 1..Len(t.rows) |->
        t.rows[k]["sentiment_positive"] * BubbleFactor + BubbleOffset * SentScale]
PlaceholderColumn(t) == [k \in 1..Len(t.rows) |-> Placeholder * SentScale]

\* A mutant of AddBubbleSize: lines 168 and 169 in the other order.
AddBubbleSizeSwapped(t) ==
    WithColumn(WithColumn(t, "bubble_size", Bubble(t)),
               "bubble_size", PlaceholderColumn(t))

\* Lines 168-169: the placeholder, then the size computed from the sentiment.
AddBubbleSize(t) ==
    WithColumn(WithColumn(t, "bubble_size", PlaceholderColumn(t)),
               "bubble_size", Bubble(t))

\* Lines 210-211.
AddTitleLength(t) ==
    LET l == WithColumn(t, "title_length",
                 [k \in 1..Len(t.rows) |->
                     IF t.rows[k]["title"] = NaN THEN NaT ELSE Len(t.rows[k]["title"])])
    IN WithColumn(l, "sentiment_size", Bubble(t))

(***************************************************************************)
(* The result filter (lines 153-166).                                      *)
(***************************************************************************)
\* re.search(pat, s, re.IGNORECASE) for a pattern of literal characters
\* and "." (any character).
MatchAt(pat, s, p) ==
    /\ p + Len(pat) - 1 <= Len(s)
    /\ \A k \in 1..Len(pat) : pat[k] = "." \/ Lower(pat[k]) = Lower(s[p + k - 1])
Search(pat, s) == \E p \in 1..(Len(s) + 1) : MatchAt(pat, s, p)

\* Series.str.contains(keyword, regex=True, case=False) of one cell:
\* "NA" for a missing cell.
StrContains(v, pat) ==
    IF v = NaN THEN "NA" ELSE IF Search(pat, v) THEN "True" ELSE "False"

ContainsMask(t, col, pat) ==
    [k \in 1..Len(t.rows) |-> StrContains(t.rows[k][col], pat)]

\* A mutant of Take: the mask is applied one row late.
TakeShifted(t, keep) ==
    LET late == [k \in 1..Len(keep) |-> k > 1 /\ keep[k - 1]]
    IN Table(t.columns, t.objcols, SelectIdx(t.index, late, 1),
             SelectIdx(t.rows, late, 1))

\* df[mask].copy()
Take(t, keep) ==
    Table(t.columns, t.objcols, SelectIdx(t.index, keep, 1),
          SelectIdx(t.rows, keep, 1))

\* Boolean indexing with the mask of one column.  With object-dtype strings
\* a missing cell leaves NaN in the mask and indexing raises ValueError;
\* with the "str" dtype a missing cell counts as False.
FilterOne(t, col, pat, mode) ==
    LET m == ContainsMask(t, col, pat)
    IN IF col \notin t.objcols THEN Error("AttributeError")
       ELSE IF mode = "object" /\ \E k \in 1..Len(m) : m[k] = "NA"
            THEN Error("ValueError")
       ELSE Ok(Take(t, [k \in 1..Len(m) |-> m[k] = "True"]))

\* mask(searchTerms) | mask(title).  With object dtype the right operand's
\* NaN is filled with False, NaN | x is NaN, and the result's NaN is filled
\* with False; with the "str" dtype both masks are boolean.
FilterBoth(t, pat, mode) ==
    LET l == ContainsMask(t, "searchTerms", pat)
        r == ContainsMask(t, "title", pat)
    IN IF {"searchTerms", "title"} \ t.objcols # {} THEN Error("AttributeError")
       ELSE IF mode = "object"
            THEN Ok(Take(t, [k \in 1..Len(l) |->
                        l[k] # "NA" /\ (l[k] = "True" \/ r[k] = "True")]))
       ELSE Ok(Take(t, [k \in 1..Len(l) |-> l[k] = "True" \/ r[k] = "True"]))

\* Lines 153-166.
Filter(t, pat, field, mode) ==
    IF field = "Search Terms" THEN FilterOne(t, "searchTerms", pat, mode)
    ELSE IF field = "Title" THEN FilterOne(t, "title", pat, mode)
    ELSE FilterBoth(t, pat, mode)

\* Lines 153-169 and 210-211: the filtered table with its derived columns.
FilterAndSize(t, pat, field, mode) ==
    LET f == Filter(t, pat, field, mode)
    IN IF f.status # "ok" THEN f ELSE Ok(AddTitleLength(AddBubbleSize(f.table)))

(***************************************************************************)
(* The inputs of a script run.                                             *)
(***************************************************************************)
TypedKeys == {"", "k"}
TypedIds == {"", "c"}
SecretSets == [API_KEY : {"", "K"}, CSE_ID : {"", "C"}]
QueryInputs == { << <<"g">> >>, << <<" ", "g">>, <<" ">>, <<"b", " ">> >> }
Intervals == MinInterval..(MinInterval + IntervalSpread)
IterationCounts == MinIterations..MaxIterations
DefaultKeyword == <<"G">>
Keywords == {<<>>, DefaultKeyword, <<".", "b">>}
DefaultField == "Search Terms"
Fields == {DefaultField, "Title", "Both"}
NaModes == {"object", "str"}

\* The search API, an external collaborator: one row per query, stamped
\* with the time of the request.
ApiTitle(q) == <<"G">> \o q
serp_goog(qs, t) ==
    Table({"searchTerms", "title", "queryTime"}, {"searchTerms", "title"},
          RangeIndex(Len(qs)),
          [k \in 1..Len(qs) |->
              [c \in {"searchTerms", "title", "queryTime"} |->
                  IF c = "searchTerms" THEN qs[k]
                  ELSE IF c = "title" THEN ApiTitle(qs[k])
                  ELSE [kind |-> "ts", t |-> t]]])

\* df.to_csv(path) of a snapshot: the RangeIndex is written unnamed.
SnapshotCsv(df) == ToCsv(df, "")

\* serp_csv.to_csv() of the session table (line 110).
ExportCsv(t) == ToCsv(t, "queryTime")

\* Files a user may hold: a snapshot as record_serp wrote it, and a file
\* saved without its index whose second row lacks a title and has an
\* unparsable queryTime.
SnapshotFile == SnapshotCsv(serp_goog(<< <<"g">>, <<"b">> >>, 7))
BareFile ==
    [columns |-> {"searchTerms", "title", "queryTime"},
     lines |-> << [searchTerms |-> <<"b">>, title |-> <<"b", "G">>,
                   queryTime |-> [kind |-> "iso", t |-> 75]],
                  [searchTerms |-> <<"g">>, title |-> NaN,
                   queryTime |-> [kind |-> "bad", t |-> 0]] >>]
Uploads == {<<>>, <<SnapshotFile>>, <<BareFile, SnapshotFile>>}

(***************************************************************************)
(* Lines 19-44: the credentials.                                           *)
(***************************************************************************)
get_default_credentials == <<secrets.API_KEY, secrets.CSE_ID>>

Or(a, b) == IF a # "" THEN a ELSE b

\* A mutant of ResolveCredentials: line 36 reads "and" for "or".
ResolveCredentialsAnd(k, c) ==
    IF k = "" /\ c = ""
    THEN LET d == get_default_credentials
         IN IF d[1] # "" /\ d[2] # ""
            THEN [stop |-> FALSE, api_key |-> Or(k, d[1]), cse_id |-> Or(c, d[2])]
            ELSE [stop |-> TRUE, api_key |-> k, cse_id |-> c]
    ELSE [stop |-> FALSE, api_key |-> k, cse_id |-> c]

\* Lines 36-44 for the typed key k and identifier c.
ResolveCredentials(k, c) ==
    IF k = "" \/ c = ""
    THEN LET d == get_default_credentials
         IN IF d[1] # "" /\ d[2] # ""
            THEN [stop |-> FALSE, api_key |-> Or(k, d[1]), cse_id |-> Or(c, d[2])]
            ELSE [stop |-> TRUE, api_key |-> k, cse_id |-> c]
    ELSE [stop |-> FALSE, api_key |-> k, cse_id |-> c]

Credentials == ResolveCredentials(typed.api_key, typed.cse_id)

(***************************************************************************)
(* Lines 89-245: the uploaded files and the page, from the session table   *)
(* `stored`.  The stored DataFrame is the object the page works on, so the *)
(* columns added at lines 127-132 are added to the stored table.           *)
(***************************************************************************)
Page(stored, files, pat, field, mode) ==
    LET m == IF files = <<>> THEN Ok(stored) ELSE UploadMerge(files)
    IN IF m.status # "ok"
       THEN [serp_csv |-> stored, csv |-> None, result |-> m.status,
             serp_results |-> None]
       ELSE IF m.table = None
       THEN [serp_csv |-> None, csv |-> None, result |-> "no data",
             serp_results |-> None]
       ELSE LET t == AddSentiment(m.table)
                f == FilterAndSize(t, pat, field, mode)
            IN [serp_csv |-> t, csv |-> ExportCsv(m.table),
                result |-> IF f.status = "ok" THEN "rendered" ELSE f.status,
                serp_results |-> f.table]

Outcome(result, tracked, uploaded) ==
    [result |-> result, tracked |-> tracked, uploaded |-> uploaded]

(***************************************************************************)
(* The script runs.  serp_results lives only inside a run, so between runs  *)
(* it is None; the filter specification below stops inside the page.       *)
(* A session keeps the sidebar settings, the keyword and *)
(* the field it starts with (the defaults, which no missing cell of these  *)
(* sessions meets; the filter specification below varies them); the        *)
(* uploaded files and the button vary from run to run.  The local clock    *)
(* does not step back.                                                     *)
(***************************************************************************)
Init ==
    /\ secrets \in SecretSets
    /\ typed \in [api_key : TypedKeys, cse_id : TypedIds]
    /\ naMode = "object"
    /\ api_key = "" /\ cse_id = ""
    /\ \E qi \in QueryInputs : queries = ParseQueries(qi)
    /\ interval \in Intervals
    /\ iterations \in IterationCounts
    /\ uploaded_files = <<>>
    /\ keyword = DefaultKeyword
    /\ filter_field = DefaultField
    /\ serp_csv = None
    /\ disk = <<>>
    /\ clock = 0
    /\ pc = "idle" /\ i = 0 /\ collected_dfs = <<>>
    /\ csv = None /\ serp_results = None /\ refiltered = None
    /\ outcome = Outcome("none", FALSE, FALSE)
    /\ fetchLog = <<>> /\ runFiles = <<>> /\ sleeps = 0

\* What every script run does as it starts.
Begin(r) ==
    /\ pc = "idle"
    /\ api_key' = r.api_key /\ cse_id' = r.cse_id
    /\ i' = 0 /\ collected_dfs' = <<>>
    /\ fetchLog' = <<>> /\ runFiles' = <<>> /\ sleeps' = 0
    /\ UNCHANGED <<secrets, typed, naMode, queries, interval, iterations, keyword,
                   filter_field, serp_results, refiltered, disk>>

\* Lines 36-44: a credential is missing and the defaults are not both set.
Stopped ==
        LET r == Credentials
        IN /\ r.stop
           /\ Begin(r)
           /\ outcome' = Outcome("stopped", FALSE, FALSE)
           /\ csv' = None
           /\ UNCHANGED <<uploaded_files, serp_csv, clock, pc>>

\* A run without the button: the uploader changed, or nothing did, and the
\* page is drawn again (lines 89-245).
Rerun ==
    \E up \in Uploads :
        LET r == Credentials
            p == Page(serp_csv, up, keyword, filter_field, naMode)
        IN /\ ~r.stop
           /\ Begin(r)
           /\ uploaded_files' = up
           /\ serp_csv' = p.serp_csv /\ csv' = p.csv
           /\ outcome' = Outcome(p.result, FALSE, up # <<>>)
           /\ UNCHANGED <<clock, pc>>

\* Line 68: the button is pressed; the other widgets are as they were.
StartTracking ==
        LET r == Credentials
        IN /\ ~r.stop
           /\ clock <= MaxClock
           /\ Begin(r)
           /\ pc' = "loop"
           /\ outcome' = Outcome("running", TRUE, uploaded_files # <<>>)
           /\ csv' = None
           /\ UNCHANGED <<uploaded_files, serp_csv, clock>>

Call == [key |-> api_key, cx |-> cse_id, q |-> queries]

Frame ==
    UNCHANGED <<secrets, typed, naMode, api_key, cse_id, queries, interval, iterations,
                uploaded_files, keyword, filter_field, serp_results, refiltered>>

\* Lines 72-76: one iteration; record_serp (lines 61-65) takes d seconds.
RecordSerp ==
    \E d \in 0..MaxFetchSecs :
        LET df == serp_goog(queries, clock + d)
            name == FileName(clock)
            more == i < iterations - 1
        IN /\ pc = "loop" /\ i < iterations
           /\ fetchLog' = Append(fetchLog, Call)
           /\ disk' = (name :> SnapshotCsv(df)) @@ disk
           /\ runFiles' = Append(runFiles, name)
           /\ collected_dfs' = Append(collected_dfs, df)
           /\ sleeps' = IF more THEN sleeps + 1 ELSE sleeps
           /\ clock' = clock + d + (IF more THEN interval ELSE 0)
           /\ i' = i + 1
           /\ pc' = IF more THEN "loop" ELSE "merge"
           /\ Frame
           /\ UNCHANGED <<serp_csv, csv, outcome>>

\* A mutant of FetchFails: the tables collected so far are merged into the
\* session table before the run ends.
FetchFailsKeepsPartial ==
    /\ pc = "loop" /\ i < iterations
    /\ fetchLog' = Append(fetchLog, Call)
    /\ pc' = "idle"
    /\ outcome' = Outcome("fetch failed", TRUE, uploaded_files # <<>>)
    /\ serp_csv' = IF collected_dfs = <<>> THEN None
                   ELSE TrackingMerge(collected_dfs).table
    /\ Frame
    /\ UNCHANGED <<csv, i, collected_dfs, runFiles, sleeps, disk, clock>>

\* Line 63 raises: the exception ends the script run.
FetchFails ==
    /\ pc = "loop" /\ i < iterations
    /\ fetchLog' = Append(fetchLog, Call)
    /\ pc' = "idle"
    /\ outcome' = Outcome("fetch failed", TRUE, uploaded_files # <<>>)
    /\ Frame
    /\ UNCHANGED <<serp_csv, csv, i, collected_dfs, runFiles, sleeps, disk, clock>>

\* Line 64 raises after the fetch: the exception ends the script run.
WriteFails ==
    \E d \in 0..MaxFetchSecs :
        /\ pc = "loop" /\ i < iterations
        /\ fetchLog' = Append(fetchLog, Call)
        /\ clock' = clock + d
        /\ pc' = "idle"
        /\ outcome' = Outcome("write failed", TRUE, uploaded_files # <<>>)
        /\ Frame
        /\ UNCHANGED <<serp_csv, csv, i, collected_dfs, runFiles, sleeps, disk>>

\* Lines 77-87, then lines 89-245.
FinishTracking ==
    LET m == TrackingMerge(collected_dfs)
        p == Page(m.table, uploaded_files, keyword, filter_field, naMode)
    IN /\ pc = "merge"
       /\ pc' = "idle"
       /\ IF m.status # "ok"
          THEN /\ outcome' = Outcome(m.status, TRUE, uploaded_files # <<>>)
               /\ UNCHANGED <<serp_csv, csv>>
          ELSE /\ serp_csv' = p.serp_csv /\ csv' = p.csv
               /\ outcome' = Outcome(p.result, TRUE, uploaded_files # <<>>)
       /\ Frame
       /\ UNCHANGED <<disk, clock, i, collected_dfs, fetchLog, runFiles, sleeps>>

Next ==
    \/ Stopped
    \/ Rerun
    \/ StartTracking
    \/ RecordSerp
    \/ FetchFails
    \/ WriteFails
    \/ FinishTracking

Spec == Init /\ [][Next]_vars

Aborted == outcome.result \in {"fetch failed", "write failed"}
LoopDone ==
    \/ pc = "merge"
    \/ pc = "idle" /\ outcome.tracked /\ ~Aborted

(***************************************************************************)
(* The rows of a table without its derived columns, and the rows a list of *)
(* snapshots is expected to give.                                          *)
(***************************************************************************)
Derived == {"sentiment", "sentiment_positive", "bubble_size", "title_length",
            "sentiment_size"}
DataRows(t) ==
    IF t = None THEN <<>>
    ELSE [k \in 1..Len(t.rows) |->
            [index |-> t.index[k],
             cells |-> [c \in t.columns \ Derived |-> t.rows[k][c]]]]
SnapshotRows(dfs) ==
    LET cols == (UNION {dfs[k].columns : k \in 1..Len(dfs)})
                    \ {"queryTime", "Unnamed: 0"}
    IN Flatten([k \in 1..Len(dfs) |->
          [j \in 1..Len(dfs[k].rows) |->
              [index |-> IF dfs[k].rows[j]["queryTime"].kind \in {"ts", "iso"}
                         THEN Strftime(dfs[k].rows[j]["queryTime"].t)
                         ELSE NaNIndex,
               cells |-> [c \in cols |->
                            IF c \in dfs[k].columns THEN dfs[k].rows[j][c]
                            ELSE NaN]]]])

\* C1: no adv.serp_goog call is issued and no snapshot file is written
\* unless both api_key and cse_id are non-empty; a run stopped at line 44
\* issues nothing and is over (it is not retried).
C1_NoFetchWithoutCredentials ==
    /\ \A k \in 1..Len(fetchLog) : fetchLog[k].key # "" /\ fetchLog[k].cx # ""
    /\ (pc \in {"loop", "merge"} \/ runFiles # <<>>)
           => api_key # "" /\ cse_id # ""
    /\ (outcome.result = "stopped" \/ Credentials.stop)
           => pc = "idle" /\ fetchLog = <<>> /\ runFiles = <<>>
    /\ Credentials.stop <=> (Credentials.api_key = "" \/ Credentials.cse_id = "")

C1_Witness ==
    /\ outcome.result = "stopped"
    /\ typed.api_key # "" /\ typed.cse_id = "" /\ secrets.CSE_ID = ""

\* C2: when the loop of a tracking run has completed without an error, the
\* run issued exactly `iterations` fetches, wrote exactly `iterations` files
\* under pairwise different names, each holding its iteration's snapshot,
\* and collected exactly `iterations` tables.
C2_ExactlyNFetchesAndFiles ==
    LoopDone =>
        /\ queries # <<>>
        /\ Len(fetchLog) = iterations
        /\ Len(runFiles) = iterations
        /\ Cardinality(Range(runFiles)) = iterations
        /\ Len(collected_dfs) = iterations
        /\ sleeps = iterations - 1
        /\ \A k \in 1..Len(runFiles) :
              /\ runFiles[k] \in DOMAIN disk
              /\ disk[runFiles[k]] = SnapshotCsv(collected_dfs[k])

C2_Witness ==
    /\ pc = "idle" /\ outcome.tracked /\ outcome.result = "rendered"
    /\ iterations >= 2 /\ Len(queries) = 2
    /\ Cardinality(DOMAIN disk) >= 2

\* C3 (as claimed): at the end of a script run whose tracking completed the
\* session table holds exactly the rows of that run's snapshots; at the end
\* of a run with uploaded files it holds exactly the rows of those files.
C3_ReplacedWholesale ==
    /\ (pc = "idle" /\ outcome.tracked /\ ~Aborted)
           => DataRows(serp_csv) = SnapshotRows(collected_dfs)
    /\ (pc = "idle" /\ ~outcome.tracked /\ outcome.uploaded)
           => DataRows(serp_csv) =
                  SnapshotRows([k \in 1..Len(uploaded_files) |->
                                   ReadCsv(uploaded_files[k])])

\* C9: a run whose fetch or write failed in iteration i+1 is over: it made
\* i+1 fetches, i sleeps and i file writes, the i files are on disk; and no
\* step of a tracking loop changes the session table.
C9_AbortState ==
    Aborted =>
        /\ pc = "idle"
        /\ i < iterations
        /\ Len(fetchLog) = i + 1
        /\ sleeps = i
        /\ Len(runFiles) = i /\ Len(collected_dfs) = i
        /\ \A k \in 1..i :
              /\ runFiles[k] \in DOMAIN disk
              /\ disk[runFiles[k]] = SnapshotCsv(collected_dfs[k])
C9_AbortKeepsSession ==
    /\ []C9_AbortState
    /\ [][(pc = "loop" \/ pc' = "loop") => serp_csv' = serp_csv]_vars

C9_Witness ==
    /\ outcome.result = "write failed" /\ i = 1 /\ iterations >= 2
    /\ serp_csv # None /\ Cardinality(DOMAIN disk) >= 1

\* C10 (as claimed): a rerun with no tracking and no uploaded files that
\* follows a render offers the same download data and leaves the session
\* table as it was.
C10_RenderIsStateless ==
    [][(/\ pc = "idle" /\ pc' = "idle"
        /\ csv # None /\ csv' # None
        /\ ~outcome'.tracked /\ ~outcome'.uploaded)
           => (csv' = csv /\ serp_csv' = serp_csv)]_vars

(***************************************************************************)
(* The merge on its own: every list of at most MaxFiles files holding at   *)
(* most MaxRows rows in all, each file saved with or without its index,    *)
(* merged as uploaded files (lines 94-102) and, read into memory, as the   *)
(* tables of a tracking run (lines 79-87).                                 *)
(***************************************************************************)
SeqsUpTo(S, n) == UNION {[1..m -> S] : m \in 0..n}

MergeLines ==
    { [searchTerms |-> <<"g">>, title |-> <<"G">>,
       queryTime |-> [kind |-> "iso", t |-> 5]],
      [searchTerms |-> <<"b">>, title |-> NaN,
       queryTime |-> [kind |-> "bad", t |-> 0]],
      [searchTerms |-> <<"g">>, title |-> <<"b">>,
       queryTime |-> NaNTime],
      [searchTerms |-> <<"b">>, title |-> <<"o">>,
       queryTime |-> [kind |-> "iso", t |-> 3725]] }

\* A CSV file of the given lines, with the unnamed index column or without.
MakeFile(lines, withIndex) ==
    LET cols == {"searchTerms", "title", "queryTime"}
                    \cup (IF withIndex THEN {""} ELSE {})
    IN [columns |-> cols,
        lines |-> [k \in 1..Len(lines) |->
                     [c \in cols |-> IF c = "" THEN <<ToString(k - 1)>>
                                     ELSE lines[k][c]]]]

Quiet ==
    /\ secrets = [API_KEY |-> "K", CSE_ID |-> "C"]
    /\ typed = [api_key |-> "", cse_id |-> ""]
    /\ api_key = "K" /\ cse_id = "C"
    /\ queries = << <<"g">> >> /\ interval = MinInterval
    /\ iterations = MinIterations
    /\ serp_csv = None /\ disk = <<>> /\ clock = 0 /\ i = 0
    /\ csv = None /\ serp_results = None /\ refiltered = None
    /\ outcome = Outcome("none", FALSE, FALSE)
    /\ fetchLog = <<>> /\ runFiles = <<>> /\ sleeps = 0

InitMerge ==
    /\ Quiet
    /\ naMode = "object"
    /\ keyword = DefaultKeyword /\ filter_field = DefaultField
    /\ pc = "inputs"
    /\ \E ls \in SeqsUpTo(MergeLines, MaxRows), n \in 1..MaxFiles :
         \E cut \in [0..n -> 0..Len(ls)], idx \in [1..n -> BOOLEAN] :
            /\ cut[0] = 0 /\ cut[n] = Len(ls)
            /\ \A k \in 1..n : cut[k - 1] <= cut[k]
            /\ uploaded_files =
                   [k \in 1..n |->
                       MakeFile(SubSeq(ls, cut[k - 1] + 1, cut[k]), idx[k])]
    /\ collected_dfs = [k \in 1..Len(uploaded_files) |-> ReadCsv(uploaded_files[k])]

MergeFrame ==
    UNCHANGED <<secrets, typed, naMode, api_key, cse_id, queries, interval,
                iterations, uploaded_files, keyword, filter_field, disk, clock,
                i, collected_dfs, csv, serp_results, refiltered, fetchLog,
                runFiles, sleeps>>

\* Lines 94-102.
MergeUploaded ==
    LET m == UploadMerge(uploaded_files)
    IN /\ pc = "inputs"
       /\ pc' = "merged"
       /\ serp_csv' = m.table
       /\ outcome' = Outcome(m.status, FALSE, TRUE)
       /\ MergeFrame

\* Lines 79-87.
MergeCollected ==
    LET m == TrackingMerge(collected_dfs)
    IN /\ pc = "inputs"
       /\ pc' = "merged"
       /\ serp_csv' = m.table
       /\ outcome' = Outcome(m.status, TRUE, FALSE)
       /\ MergeFrame

NextMerge == MergeUploaded \/ MergeCollected

SpecMerge == InitMerge /\ [][NextMerge]_vars

InputLines == Flatten([k \in 1..Len(uploaded_files) |-> uploaded_files[k].lines])

\* C4: the merge of K >= 1 tables of sizes n1..nK has n1+...+nK rows, in
\* input order, and no "Unnamed: 0" column.
C4_MergeKeepsEveryRow ==
    pc = "merged" =>
        /\ outcome.result = "ok"
        /\ Len(serp_csv.rows) =
               SumSeq([k \in 1..Len(uploaded_files) |-> Len(uploaded_files[k].lines)])
        /\ Len(serp_csv.index) = Len(serp_csv.rows)
        /\ "Unnamed: 0" \notin serp_csv.columns
        /\ \A k \in 1..Len(serp_csv.rows) :
              /\ "Unnamed: 0" \notin DOMAIN serp_csv.rows[k]
              /\ \A c \in {"searchTerms", "title"} :
                    serp_csv.rows[k][c] = InputLines[k][c]

C4_Witness ==
    /\ pc = "merged"
    /\ Len(uploaded_files) = 2
    /\ "" \in uploaded_files[1].columns /\ "" \notin uploaded_files[2].columns
    /\ Len(uploaded_files[1].lines) = 1 /\ Len(uploaded_files[2].lines) = 1
    /\ Len(serp_csv.rows) = 2

\* The index expected for the parsable times among the inputs.
CanonicalTime(t) ==
    IF t = 5 THEN "1970-01-01 00:00:05"
    ELSE IF t = 3725 THEN "1970-01-01 01:02:05"
    ELSE "?"

\* C5: a row with a missing or unparsable queryTime does not fail the
\* merge; the row is kept and indexed by the sentinel, and every parsable
\* queryTime is indexed as "YYYY-MM-DD HH:MM:SS".
C5_UnparsableTimeIsSentinel ==
    pc = "merged" =>
        /\ outcome.result = "ok"
        /\ Len(serp_csv.index) = Len(InputLines)
        /\ \A k \in 1..Len(InputLines) :
              IF InputLines[k]["queryTime"].kind = "iso"
              THEN serp_csv.index[k] = CanonicalTime(InputLines[k]["queryTime"].t)
              ELSE serp_csv.index[k] = NaNIndex

C5_Witness ==
    /\ pc = "merged"
    /\ \E k \in 1..Len(InputLines) : InputLines[k]["queryTime"].kind \in {"bad", "nan"}
    /\ \E k \in 1..Len(InputLines) : InputLines[k]["queryTime"].t = 3725
    /\ NaNIndex \in Range(serp_csv.index)
    /\ "1970-01-01 01:02:05" \in Range(serp_csv.index)

(***************************************************************************)
(* The page on its own: every table of at most MaxRows rows, every keyword *)
(* and every field; the filter is then applied to its own output.          *)
(***************************************************************************)
FilterLines ==
    { [searchTerms |-> <<"g">>, title |-> <<"G", "b">>,
       queryTime |-> [kind |-> "iso", t |-> 5]],
      [searchTerms |-> <<"b">>, title |-> NaN,
       queryTime |-> [kind |-> "iso", t |-> 5]],
      [searchTerms |-> NaN, title |-> <<"g">>,
       queryTime |-> [kind |-> "iso", t |-> 5]],
      [searchTerms |-> <<"b">>, title |-> <<"o">>,
       queryTime |-> [kind |-> "iso", t |-> 5]],
      [searchTerms |-> NaN, title |-> NaN,
       queryTime |-> [kind |-> "iso", t |-> 5]],
      [searchTerms |-> <<"g">>, title |-> <<"B">>,
       queryTime |-> [kind |-> "iso", t |-> 5]] }

InitFilter ==
    /\ Quiet
    /\ naMode \in NaModes
    /\ keyword \in Keywords
    /\ filter_field \in Fields
    /\ pc = "page"
    /\ \E ls \in SeqsUpTo(FilterLines, MaxRows) :
          uploaded_files = <<MakeFile(ls, FALSE)>>
    /\ collected_dfs = <<>>

\* Lines 94-211 of a run with an uploaded file, seen before the run ends.
RenderPage ==
    LET p == Page(serp_csv, uploaded_files, keyword, filter_field, naMode)
    IN /\ pc = "page"
       /\ pc' = "rendered"
       /\ serp_csv' = p.serp_csv /\ csv' = p.csv
       /\ serp_results' = p.serp_results
       /\ outcome' = Outcome(p.result, FALSE, TRUE)
       /\ UNCHANGED <<secrets, typed, naMode, api_key, cse_id, queries,
                      interval, iterations, uploaded_files, keyword,
                      filter_field, disk, clock, i, collected_dfs, refiltered,
                      fetchLog, runFiles, sleeps>>

\* Lines 153-166 applied to serp_results, with the same keyword and field.
FilterAgain ==
    /\ pc = "rendered" /\ serp_results # None
    /\ pc' = "refiltered"
    /\ refiltered' = Filter(serp_results, keyword, filter_field, naMode)
    /\ UNCHANGED <<secrets, typed, naMode, api_key, cse_id, queries, interval,
                   iterations, uploaded_files, keyword, filter_field, disk,
                   clock, i, collected_dfs, csv, serp_csv, serp_results,
                   outcome, fetchLog, runFiles, sleeps>>

NextFilter == RenderPage \/ FilterAgain

SpecFilter == InitFilter /\ [][NextFilter]_vars

\* C6: the filter applied to its own output, with the same keyword and
\* field, returns that output.
C6_FilterIdempotent ==
    pc = "refiltered" => refiltered.status = "ok" /\ refiltered.table = serp_results

C6_Witness ==
    /\ pc = "refiltered"
    /\ filter_field = "Both" /\ keyword # <<>>
    /\ Len(serp_results.rows) >= 1
    /\ Len(serp_results.rows) < Len(serp_csv.rows)

\* C7 (as claimed): with an empty keyword the filter returns every row of
\* the table, whatever the field and whether or not a title or a
\* searchTerms cell is missing.
C7_EmptyKeywordKeepsAll ==
    (pc = "rendered" /\ keyword = <<>>) =>
        /\ outcome.result = "rendered"
        /\ DataRows(serp_results) = DataRows(serp_csv)

\* C8: in every row of the filtered table sentiment is in [-1, 1],
\* sentiment_positive = sentiment + 1 is in [0, 2], and bubble_size (like
\* sentiment_size) is sentiment_positive * 20 + 10, in [10, 50]: the
\* placeholder of line 168 is overwritten in every row.
C8_DerivedColumns ==
    (pc \in {"rendered", "refiltered"} /\ serp_results # None) =>
        \A k \in 1..Len(serp_results.rows) :
            LET r == serp_results.rows[k]
            IN /\ r["sentiment"] = Polarity(Str(r["title"]))
               /\ -SentScale <= r["sentiment"] /\ r["sentiment"] <= SentScale
               /\ r["sentiment_positive"] = r["sentiment"] + SentScale
               /\ 0 <= r["sentiment_positive"]
               /\ r["sentiment_positive"] <= 2 * SentScale
               /\ r["bubble_size"] =
                      r["sentiment_positive"] * BubbleFactor + BubbleOffset * SentScale
               /\ BubbleOffset * SentScale <= r["bubble_size"]
               /\ r["bubble_size"] <= 50 * SentScale
               /\ r["sentiment_size"] = r["bubble_size"]

C8_Witness ==
    /\ pc = "rendered" /\ serp_results # None
    /\ \E k \in 1..Len(serp_results.rows) :
          serp_results.rows[k]["bubble_size"] # Placeholder * SentScale
    /\ \E k \in 1..Len(serp_results.rows) :
          serp_results.rows[k]["sentiment"] < 0
====
